---- MODULE Spec2Model ----
(***************************************************************************)
(* Model of wunderpahkina-vol9 (src/src/main.rs): the Row type, its       *)
(* transition rule, the recursive pattern detection and the threaded      *)
(* driver in main.                                                         *)
(***************************************************************************)
EXTENDS Integers, Sequences, FiniteSets, TLC

\* Longest input line drawn for a classification run.
MaxLen == 8
\* Largest max_depth argument drawn for a classification run.
MaxDepthBound == 8
\* Most lines in the file main reads.
MaxLines == 2

\* const MAX_DEPTH: u32 = 100
MAX_DEPTH == 100

\* A line is a sequence of characters; '#' is the filled marker, '.' stands
\* for every other character (from_string only tests c == '#').
Chars == {"#", "."}

Lines == UNION {[1..n -> Chars] : n \in 0..MaxLen}

\* enum Pattern
Pattern == {"Blinking", "Gliding", "Vanishing", "Other"}

\* impl fmt::Display for Pattern
fmt(p) ==
  CASE p = "Blinking" -> "blinking"
    [] p = "Gliding" -> "gliding"
    [] p = "Vanishing" -> "vanishing"
    [] p = "Other" -> "other"

-----------------------------------------------------------------------------
(* Row *)

\* Row::new
new == [values |-> {}, min |-> 0, max |-> 0]

\* PartialEq for Row: only the hash sets are compared.
eq(self, other) == self.values = other.values

\* Mutant of insert: the empty case is missing, so min and max start from
\* the placeholders of Row::new.
insert_no_empty_case(self, value) ==
  IF value < self.min
  THEN [values |-> self.values \cup {value}, min |-> value, max |-> self.max]
  ELSE IF value > self.max
  THEN [values |-> self.values \cup {value}, min |-> self.min, max |-> value]
  ELSE [values |-> self.values \cup {value}, min |-> self.min, max |-> self.max]

\* Row::insert
insert(self, value) ==
  IF self.values = {}
  THEN [values |-> {value}, min |-> value, max |-> value]
  ELSE IF value < self.min
  THEN [values |-> self.values \cup {value}, min |-> value, max |-> self.max]
  ELSE IF value > self.max
  THEN [values |-> self.values \cup {value}, min |-> self.min, max |-> value]
  ELSE [values |-> self.values \cup {value}, min |-> self.min, max |-> self.max]

\* The loop of Row::from_string: i is the 1-based position in s, so the
\* source's index is i - 1.
RECURSIVE from_string_loop(_, _, _)
from_string_loop(s, i, row) ==
  IF i > Len(s) THEN row
  ELSE from_string_loop(s, i + 1,
         IF s[i] = "#" THEN insert(row, i - 1) ELSE row)

\* Row::from_string
from_string(s) == from_string_loop(s, 1, new)

\* Mutant of calc_neighbor_sum: the cell itself is counted too.
calc_neighbor_sum_with_self(self, index) ==
  (IF (index - 2) \in self.values THEN 1 ELSE 0)
  + (IF (index - 1) \in self.values THEN 1 ELSE 0)
  + (IF index \in self.values THEN 1 ELSE 0)
  + (IF (index + 1) \in self.values THEN 1 ELSE 0)
  + (IF (index + 2) \in self.values THEN 1 ELSE 0)

\* Row::calc_neighbor_sum
calc_neighbor_sum(self, index) ==
  (IF (index - 2) \in self.values THEN 1 ELSE 0)
  + (IF (index - 1) \in self.values THEN 1 ELSE 0)
  + (IF (index + 1) \in self.values THEN 1 ELSE 0)
  + (IF (index + 2) \in self.values THEN 1 ELSE 0)

\* Mutant of test_rule_1: birth on exactly three neighbours only.
test_rule_1_only_3(self, num) ==
  LET sum == calc_neighbor_sum(self, num) IN sum = 3

\* Row::test_rule_1
test_rule_1(self, num) ==
  LET sum == calc_neighbor_sum(self, num) IN sum = 2 \/ sum = 3

\* Row::test_rule_2
test_rule_2(self, num) ==
  LET sum == calc_neighbor_sum(self, num) IN sum = 2 \/ sum = 4

\* Mutant of scan_start: the scan starts at min instead of min - 1.
scan_start_at_min(self) == self.min

\* First and one-past-last position scanned by Row::next:
\* (self.min - 1)..(self.max + 2), a half-open range.
scan_start(self) == self.min - 1

scan_end(self) == self.max + 2

\* The loop of Row::next over num in scan_start..scan_end (end excluded).
RECURSIVE next_loop(_, _, _)
next_loop(self, num, row) ==
  IF num >= scan_end(self) THEN row
  ELSE LET ins == IF num \in self.values
                  THEN test_rule_2(self, num)
                  ELSE test_rule_1(self, num)
       IN next_loop(self, num + 1, IF ins THEN insert(row, num) ELSE row)

\* Row::next
next(self) == next_loop(self, scan_start(self), new)

\* Mutant of eq_shift: the offset is subtracted.
eq_shift_minus(self, other, offset) ==
  \A x \in self.values : (x - offset) \in other.values

\* Row::eq_shift
eq_shift(self, other, offset) ==
  \A x \in self.values : (x + offset) \in other.values

\* Mutant of is_gliding: the cell counts are not compared.
is_gliding_no_len(self, other) ==
  /\ self.min /= other.min
  /\ eq_shift(self, other, other.min - self.min)

\* Row::is_gliding
is_gliding(self, other) ==
  /\ Cardinality(self.values) = Cardinality(other.values)
  /\ self.min /= other.min
  /\ eq_shift(self, other, other.min - self.min)

-----------------------------------------------------------------------------
(* Pattern detection *)

\* Mutant of blink_rows: the slice drops the first row instead of the last.
blink_rows_drop_first(previous_rows) ==
  SubSeq(previous_rows, 2, Len(previous_rows))

\* The rows the exact-repeat test looks at:
\* previous_rows[..previous_rows.len() - 1].
blink_rows(previous_rows) == SubSeq(previous_rows, 1, Len(previous_rows) - 1)

\* Mutant of gliding_rows: the translation test skips the last row, as the
\* exact-repeat test does.
gliding_rows_skip_last(previous_rows) ==
  SubSeq(previous_rows, 1, Len(previous_rows) - 1)

\* The rows the translation test looks at: previous_rows[..].
gliding_rows(previous_rows) == previous_rows

\* Mutant of budget_reached: off by one.
budget_exceeded(max_depth, current_depth) == current_depth > max_depth

\* The budget test: current_depth >= max_depth.
budget_reached(max_depth, current_depth) == current_depth >= max_depth

\* Mutant of step: the budget test comes first.
step_budget_first(self, max_depth, current_depth, previous_rows) ==
  LET nx == next(self) IN
  IF budget_reached(max_depth, current_depth) THEN "Other"
  ELSE IF nx.values = {} THEN "Vanishing"
  ELSE IF Len(previous_rows) = 0 THEN "panic"
  ELSE IF \E i \in 1..Len(blink_rows(previous_rows)) :
            eq(nx, blink_rows(previous_rows)[i])
  THEN "Blinking"
  ELSE IF \E i \in 1..Len(gliding_rows(previous_rows)) :
            is_gliding(nx, gliding_rows(previous_rows)[i])
  THEN "Gliding"
  ELSE "recurse"

\* Mutant of step: the budget test comes before the translation test.
step_budget_before_gliding(self, max_depth, current_depth, previous_rows) ==
  LET nx == next(self) IN
  IF nx.values = {} THEN "Vanishing"
  ELSE IF Len(previous_rows) = 0 THEN "panic"
  ELSE IF \E i \in 1..Len(blink_rows(previous_rows)) :
            eq(nx, blink_rows(previous_rows)[i])
  THEN "Blinking"
  ELSE IF budget_reached(max_depth, current_depth) THEN "Other"
  ELSE IF \E i \in 1..Len(gliding_rows(previous_rows)) :
            is_gliding(nx, gliding_rows(previous_rows)[i])
  THEN "Gliding"
  ELSE "recurse"

\* Mutant of step: the budget test returns Blinking instead of Other.
step_budget_blinking(self, max_depth, current_depth, previous_rows) ==
  LET nx == next(self) IN
  IF nx.values = {} THEN "Vanishing"
  ELSE IF Len(previous_rows) = 0 THEN "panic"
  ELSE IF \E i \in 1..Len(blink_rows(previous_rows)) :
            eq(nx, blink_rows(previous_rows)[i])
  THEN "Blinking"
  ELSE IF \E i \in 1..Len(gliding_rows(previous_rows)) :
            is_gliding(nx, gliding_rows(previous_rows)[i])
  THEN "Gliding"
  ELSE IF budget_reached(max_depth, current_depth) THEN "Blinking"
  ELSE "recurse"

\* Mutant of step: the emptiness test is missing.
step_no_empty_test(self, max_depth, current_depth, previous_rows) ==
  LET nx == next(self) IN
  IF Len(previous_rows) = 0 THEN "panic"
  ELSE IF \E i \in 1..Len(blink_rows(previous_rows)) :
            eq(nx, blink_rows(previous_rows)[i])
  THEN "Blinking"
  ELSE IF \E i \in 1..Len(gliding_rows(previous_rows)) :
            is_gliding(nx, gliding_rows(previous_rows)[i])
  THEN "Gliding"
  ELSE IF budget_reached(max_depth, current_depth) THEN "Other"
  ELSE "recurse"

\* The body of one call of Row::detect_pattern_recursive up to its recursive
\* call: the Pattern it returns, "recurse" when it goes one level deeper, or
\* "panic" when the slice of an empty history is out of range.
step(self, max_depth, current_depth, previous_rows) ==
  LET nx == next(self) IN
  IF nx.values = {} THEN "Vanishing"
  ELSE IF Len(previous_rows) = 0 THEN "panic"
  ELSE IF \E i \in 1..Len(blink_rows(previous_rows)) :
            eq(nx, blink_rows(previous_rows)[i])
  THEN "Blinking"
  ELSE IF \E i \in 1..Len(gliding_rows(previous_rows)) :
            is_gliding(nx, gliding_rows(previous_rows)[i])
  THEN "Gliding"
  ELSE IF budget_reached(max_depth, current_depth) THEN "Other"
  ELSE "recurse"

\* Mutant of initial_rows: the initial row is pushed twice.
initial_rows_pushed_twice(s) == <<from_string(s), from_string(s)>>

\* Mutant of initial_rows: the initial row is not pushed.
initial_rows_unpushed(s) == <<>>

\* The history Row::detect_pattern starts with: the initial row, pushed once.
initial_rows(s) == <<from_string(s)>>

\* Row::detect_pattern_recursive as the function it computes.
RECURSIVE detect_pattern_recursive(_, _, _, _)
detect_pattern_recursive(self, max_depth, current_depth, previous_rows) ==
  LET o == step(self, max_depth, current_depth, previous_rows) IN
  IF o = "recurse"
  THEN detect_pattern_recursive(next(self), max_depth, current_depth + 1,
                                Append(previous_rows, next(self)))
  ELSE o

\* Row::detect_pattern as the function it computes.
detect_pattern(s, max_depth) ==
  detect_pattern_recursive(from_string(s), max_depth, 2, initial_rows(s))

-----------------------------------------------------------------------------
(* The same call with the iteration order of the hash set made explicit *)

\* All orders in which the elements of a set can be iterated.
RECURSIVE Orders(_)
Orders(v) ==
  IF v = {} THEN {<<>>}
  ELSE UNION {{<<x>> \o rest : rest \in Orders(v \ {x})} : x \in v}

\* Mutant of eq_shift_iter: only the first element iterated is tested.
eq_shift_iter_first_only(order, other, offset) ==
  order = <<>> \/ (Head(order) + offset) \in other.values

\* Row::eq_shift, its values iterated in the given order: all() stops at
\* the first shifted value the other Row does not contain.
RECURSIVE eq_shift_iter(_, _, _)
eq_shift_iter(order, other, offset) ==
  IF order = <<>> THEN TRUE
  ELSE IF (Head(order) + offset) \notin other.values THEN FALSE
  ELSE eq_shift_iter(Tail(order), other, offset)

\* PartialEq for Row, self.values.eq(&other.values): equal lengths and
\* every value of self, in iteration order, contained in other.
eq_iter(order, other) ==
  /\ Len(order) = Cardinality(other.values)
  /\ eq_shift_iter(order, other, 0)

\* Row::is_gliding, order being the iteration order of self.values.
is_gliding_iter(self, order, other) ==
  /\ Len(order) = Cardinality(other.values)
  /\ self.min /= other.min
  /\ eq_shift_iter(order, other, other.min - self.min)

\* One call of Row::detect_pattern_recursive, order being the iteration
\* order of the hash set of its `next` Row.
step_iter(self, max_depth, current_depth, previous_rows, order) ==
  LET nx == next(self) IN
  IF nx.values = {} THEN "Vanishing"
  ELSE IF Len(previous_rows) = 0 THEN "panic"
  ELSE IF \E i \in 1..Len(blink_rows(previous_rows)) :
            eq_iter(order, blink_rows(previous_rows)[i])
  THEN "Blinking"
  ELSE IF \E i \in 1..Len(gliding_rows(previous_rows)) :
            is_gliding_iter(nx, order, gliding_rows(previous_rows)[i])
  THEN "Gliding"
  ELSE IF budget_reached(max_depth, current_depth) THEN "Other"
  ELSE "recurse"

-----------------------------------------------------------------------------
(* One classification run, one recursion level per step *)

VARIABLES
  s,              \* the line being classified
  max_depth,      \* the max_depth argument
  pc,             \* "start", "rec" (inside a recursive call), "done", "panicked"
  self,           \* receiver of the current detect_pattern_recursive call
  current_depth,  \* its current_depth argument
  previous_rows,  \* the history vector
  result,         \* the Pattern returned, "none" before
  content,        \* main: the lines of the file
  spawned,        \* main: number of threads spawned so far
  children,       \* main: per thread, its private classification state
  joined,         \* main: number of threads joined so far
  results,        \* main: the results vector of (index, Pattern)
  output,         \* main: the lines printed
  mainpc,         \* main: "idle", "spawn", "join", "sort", "print", "done"
  rowA,           \* Row calls: the receiver Row
  rowB,           \* Row calls: the other Row
  gens,           \* Row calls: how often rowA and rowB were rebuilt (next, insert)
  call            \* Row calls: the last call made, its argument and result

runvars == <<s, max_depth, pc, self, current_depth, previous_rows, result>>
mainvars == <<content, spawned, children, joined, results, output, mainpc>>
rowvars == <<rowA, rowB, gens, call>>
vars == <<s, max_depth, pc, self, current_depth, previous_rows, result,
          content, spawned, children, joined, results, output, mainpc,
          rowA, rowB, gens, call>>

\* No Row call made yet.
NoCall == [op |-> "none", arg |-> 0, ret |-> FALSE]

RowIdle ==
  /\ rowA = new
  /\ rowB = new
  /\ gens = <<0, 0>>
  /\ call = NoCall

MainIdle ==
  /\ content = <<>>
  /\ spawned = 0
  /\ children = <<>>
  /\ joined = 0
  /\ results = <<>>
  /\ output = <<>>
  /\ mainpc = "idle"

Init ==
  /\ s \in Lines
  /\ max_depth \in 0..MaxDepthBound
  /\ pc = "start"
  /\ self = new
  /\ current_depth = 0
  /\ previous_rows = <<>>
  /\ result = "none"
  /\ MainIdle
  /\ RowIdle

\* Row::detect_pattern up to its call of detect_pattern_recursive.
Call ==
  /\ pc = "start"
  /\ previous_rows' = initial_rows(s)
  /\ self' = from_string(s)
  /\ current_depth' = 2
  /\ pc' = "rec"
  /\ UNCHANGED <<s, max_depth, result, mainvars, rowvars>>

\* One call of Row::detect_pattern_recursive.
Step ==
  /\ pc = "rec"
  /\ LET o == step(self, max_depth, current_depth, previous_rows) IN
     IF o = "recurse"
     THEN /\ previous_rows' = Append(previous_rows, next(self))
          /\ self' = next(self)
          /\ current_depth' = current_depth + 1
          /\ UNCHANGED <<pc, result>>
     ELSE IF o = "panic"
     THEN /\ pc' = "panicked"
          /\ UNCHANGED <<self, current_depth, previous_rows, result>>
     ELSE /\ pc' = "done"
          /\ result' = o
          /\ UNCHANGED <<self, current_depth, previous_rows>>
  /\ UNCHANGED <<s, max_depth, mainvars, rowvars>>

Next == Call \/ Step

Spec == Init /\ [][Next]_vars

-----------------------------------------------------------------------------
(* main: one thread per line, joined in spawn order, sorted, printed *)

\* The lines a file is made of in the model of main.
FileLines ==
  { <<>>,
    <<"#", "#">>,
    <<"#", ".", "#">>,
    <<"#", "#", "#", ".", "#">> }

Files == UNION {[1..n -> FileLines] : n \in 0..MaxLines}

RunIdle ==
  /\ s = <<>>
  /\ max_depth = MAX_DEPTH
  /\ pc = "idle"
  /\ self = new
  /\ current_depth = 0
  /\ previous_rows = <<>>
  /\ result = "none"

\* State after content.lines().enumerate(): nothing spawned yet.
MainInit ==
  /\ RunIdle
  /\ RowIdle
  /\ content \in Files
  /\ spawned = 0
  /\ children = <<>>
  /\ joined = 0
  /\ results = <<>>
  /\ output = <<>>
  /\ mainpc = "spawn"

\* The closure handed to thread::spawn, before it runs: it owns the index
\* and a copy of the line.
closure(index, line) ==
  [index |-> index, s |-> line, pc |-> "start", self |-> new,
   current_depth |-> 0, previous_rows |-> <<>>, result |-> "none"]

\* One iteration of `for (index, line) in lines`: children.push(spawn(..)).
Spawn ==
  /\ mainpc = "spawn"
  /\ spawned < Len(content)
  /\ children' = Append(children, closure(spawned, content[spawned + 1]))
  /\ spawned' = spawned + 1
  /\ UNCHANGED <<runvars, rowvars, content, joined, results, output, mainpc>>

\* The spawn loop ends; main goes on to join.
SpawnEnd ==
  /\ mainpc = "spawn"
  /\ spawned = Len(content)
  /\ mainpc' = "join"
  /\ UNCHANGED <<runvars, rowvars, content, spawned, children, joined, results, output>>

\* Thread t enters Row::detect_pattern(&s, MAX_DEPTH).
ThreadCall(t) ==
  /\ children[t].pc = "start"
  /\ children' = [children EXCEPT ![t] =
       [@ EXCEPT !.previous_rows = initial_rows(children[t].s),
                 !.self = from_string(children[t].s),
                 !.current_depth = 2,
                 !.pc = "rec"]]
  /\ UNCHANGED <<runvars, rowvars, content, spawned, joined, results, output, mainpc>>

\* Thread t runs one call of detect_pattern_recursive on its own history.
ThreadStep(t) ==
  /\ children[t].pc = "rec"
  /\ LET c == children[t]
         o == step(c.self, MAX_DEPTH, c.current_depth, c.previous_rows)
     IN children' = [children EXCEPT ![t] =
          IF o = "recurse"
          THEN [c EXCEPT !.previous_rows = Append(c.previous_rows, next(c.self)),
                         !.self = next(c.self),
                         !.current_depth = c.current_depth + 1]
          ELSE IF o = "panic"
          THEN [c EXCEPT !.pc = "panicked"]
          ELSE [c EXCEPT !.pc = "done", !.result = o]]
  /\ UNCHANGED <<runvars, rowvars, content, spawned, joined, results, output, mainpc>>

\* The child main joins next: `for child in children` takes them in the
\* order they were pushed.
join_target(n) == n + 1

\* One iteration of the join loop: child.join().unwrap() blocks until that
\* thread has returned, then its (index, Pattern) is pushed to results.
Join ==
  /\ mainpc = "join"
  /\ joined < Len(children)
  /\ LET c == children[join_target(joined)] IN
     /\ c.pc \in {"done", "panicked"}
     /\ IF c.pc = "panicked"
        THEN /\ mainpc' = "panicked"
             /\ UNCHANGED <<joined, results>>
        ELSE /\ results' = Append(results, <<c.index, c.result>>)
             /\ joined' = joined + 1
             /\ UNCHANGED mainpc
  /\ UNCHANGED <<runvars, rowvars, content, spawned, children, output>>

\* The join loop ends.
JoinEnd ==
  /\ mainpc = "join"
  /\ joined = Len(children)
  /\ mainpc' = "sort"
  /\ UNCHANGED <<runvars, rowvars, content, spawned, children, joined, results, output>>

\* Mutant of index_le: the comparison is reversed (b.0.cmp(&a.0)).
index_ge(a, b) == a[1] >= b[1]

\* The comparison given to sort_by: a.0.cmp(&b.0) is not Greater.
index_le(a, b) == a[1] <= b[1]

\* Insertion of x into a sorted sequence after every element not greater
\* than it (a stable sort keeps equal elements in order).
RECURSIVE sorted_insert(_, _)
sorted_insert(sorted, x) ==
  IF sorted = <<>> THEN <<x>>
  ELSE IF index_le(sorted[Len(sorted)], x) THEN Append(sorted, x)
  ELSE Append(sorted_insert(SubSeq(sorted, 1, Len(sorted) - 1), x),
              sorted[Len(sorted)])

\* results.sort_by(|a, b| a.0.cmp(&b.0)), a stable sort.
RECURSIVE sort_by_index(_)
sort_by_index(v) ==
  IF v = <<>> THEN <<>>
  ELSE sorted_insert(sort_by_index(SubSeq(v, 1, Len(v) - 1)), v[Len(v)])

Sort ==
  /\ mainpc = "sort"
  /\ results' = sort_by_index(results)
  /\ mainpc' = "print"
  /\ UNCHANGED <<runvars, rowvars, content, spawned, children, joined, output>>

\* One iteration of the print loop: println!("{}", result.1).
Println ==
  /\ mainpc = "print"
  /\ Len(output) < Len(results)
  /\ output' = Append(output, fmt(results[Len(output) + 1][2]))
  /\ UNCHANGED <<runvars, rowvars, content, spawned, children, joined, results, mainpc>>

\* The print loop ends and main returns.
PrintEnd ==
  /\ mainpc = "print"
  /\ Len(output) = Len(results)
  /\ mainpc' = "done"
  /\ UNCHANGED <<runvars, rowvars, content, spawned, children, joined, results, output>>

MainNext ==
  \/ Spawn
  \/ SpawnEnd
  \/ \E t \in 1..Len(children) : ThreadCall(t)
  \/ \E t \in 1..Len(children) : ThreadStep(t)
  \/ Join
  \/ JoinEnd
  \/ Sort
  \/ Println
  \/ PrintEnd

MainSpec == MainInit /\ [][MainNext]_vars

-----------------------------------------------------------------------------
(* Two runs on the same line and max_depth, side by side, with the          *)
(* iteration order of the hash set made explicit                            *)

\* The lines the two runs are given.
DetLines ==
  FileLines \cup
  { <<"#", "#", "#", "#">>,
    <<"#", ".", "#", "#", ".", "#">> }

\* Two runs about to call Row::detect_pattern on the same line with the same
\* max_depth.
DetInit ==
  /\ s \in DetLines
  /\ max_depth \in 0..MaxDepthBound
  /\ pc = "idle"
  /\ self = new
  /\ current_depth = 0
  /\ previous_rows = <<>>
  /\ result = "none"
  /\ content = <<s, s>>
  /\ spawned = 2
  /\ children = <<closure(0, s), closure(1, s)>>
  /\ joined = 0
  /\ results = <<>>
  /\ output = <<>>
  /\ mainpc = "idle"
  /\ RowIdle

\* Run t makes one call of detect_pattern_recursive; its hash set is
\* iterated in any order.
DetStep(t) ==
  /\ children[t].pc = "rec"
  /\ \E order \in Orders(next(children[t].self).values) :
       LET c == children[t]
           o == step_iter(c.self, max_depth, c.current_depth,
                          c.previous_rows, order)
       IN children' = [children EXCEPT ![t] =
            IF o = "recurse"
            THEN [c EXCEPT !.previous_rows = Append(c.previous_rows, next(c.self)),
                           !.self = next(c.self),
                           !.current_depth = c.current_depth + 1]
            ELSE IF o = "panic"
            THEN [c EXCEPT !.pc = "panicked"]
            ELSE [c EXCEPT !.pc = "done", !.result = o]]
  /\ UNCHANGED <<runvars, rowvars, content, spawned, joined, results, output, mainpc>>

DetNext ==
  \/ \E t \in 1..Len(children) : ThreadCall(t)
  \/ \E t \in 1..Len(children) : DetStep(t)

DetSpec == DetInit /\ [][DetNext]_vars

-----------------------------------------------------------------------------
(* Calls on Rows: two Rows built by from_string and next, then one call of  *)
(* is_gliding or eq_shift on them                                           *)

\* Longest line the two Rows are built from.
RowLen == 5
\* Most applications of next to each of the two Rows.
MaxGen == 1
\* Largest offset, in absolute value, handed to eq_shift.
OffsetBound == 6

RowLines == UNION {[1..n -> Chars] : n \in 0..RowLen}

Offsets == (0 - OffsetBound)..OffsetBound

\* The positions handed to calc_neighbor_sum: inside the filled span and
\* outside it on both sides, negative ones included.
Positions == (0 - OffsetBound)..(RowLen + MaxGen + OffsetBound)

RowInit ==
  /\ RunIdle
  /\ MainIdle
  /\ rowA \in {from_string(l) : l \in RowLines}
  /\ rowB \in {from_string(l) : l \in RowLines}
  /\ gens = <<0, 0>>
  /\ call = NoCall

\* rowA = rowA.next()
NextA ==
  /\ call.op = "none"
  /\ gens[1] < MaxGen
  /\ rowA' = next(rowA)
  /\ gens' = <<gens[1] + 1, gens[2]>>
  /\ UNCHANGED <<runvars, mainvars, rowB, call>>

\* rowB = rowB.next()
NextB ==
  /\ call.op = "none"
  /\ gens[2] < MaxGen
  /\ rowB' = next(rowB)
  /\ gens' = <<gens[1], gens[2] + 1>>
  /\ UNCHANGED <<runvars, mainvars, rowA, call>>

\* rowA.is_gliding(&rowB)
IsGliding ==
  /\ call.op = "none"
  /\ call' = [op |-> "is_gliding", arg |-> 0, ret |-> is_gliding(rowA, rowB)]
  /\ UNCHANGED <<runvars, mainvars, rowA, rowB, gens>>

\* rowA.eq_shift(&rowB, offset)
EqShift(offset) ==
  /\ call.op = "none"
  /\ call' = [op |-> "eq_shift", arg |-> offset, ret |-> eq_shift(rowA, rowB, offset)]
  /\ UNCHANGED <<runvars, mainvars, rowA, rowB, gens>>

\* rowA.calc_neighbor_sum(index)
CalcNeighborSum(index) ==
  /\ call.op = "none"
  /\ call' = [op |-> "calc_neighbor_sum", arg |-> index,
               ret |-> calc_neighbor_sum(rowA, index)]
  /\ UNCHANGED <<runvars, mainvars, rowA, rowB, gens>>

RowNext ==
  \/ NextA
  \/ NextB
  \/ IsGliding
  \/ \E offset \in Offsets : EqShift(offset)
  \/ \E index \in Positions : CalcNeighborSum(index)

RowSpec == RowInit /\ [][RowNext]_vars

-----------------------------------------------------------------------------
(* Calls of Row::insert on a new Row, in any order, values repeated *)

\* Largest value, in absolute value, inserted.
ValBound == 3
\* Most insert calls on one Row.
MaxInserts == 4

InsertValues == (0 - ValBound)..ValBound

\* let mut row = Row::new();
InsertInit ==
  /\ RunIdle
  /\ MainIdle
  /\ RowIdle

\* rowA.insert(value)
Insert(value) ==
  /\ gens[1] < MaxInserts
  /\ rowA' = insert(rowA, value)
  /\ gens' = <<gens[1] + 1, gens[2]>>
  /\ call' = [op |-> "insert", arg |-> value, ret |-> FALSE]
  /\ UNCHANGED <<runvars, mainvars, rowB>>

InsertNext == \E value \in InsertValues : Insert(value)

InsertSpec == InsertInit /\ [][InsertNext]_vars

-----------------------------------------------------------------------------
(* Vocabulary of the properties, stated on filled sets without the Row's    *)
(* cached min and max                                                       *)

\* Positions scanned beyond [min, max] on each side when a property speaks
\* of "all integer positions".
Margin == 4

\* rows <<e_0, ..., e_n>>: the configuration of row followed by n transitions.
RECURSIVE Evolution(_, _)
Evolution(row, n) ==
  IF n = 0 THEN <<row>>
  ELSE LET e == Evolution(row, n - 1) IN Append(e, next(e[Len(e)]))

\* Number of successor configurations a run with budget d examines.
Budget(d) == (IF d > 2 THEN d ELSE 2) - 1

\* The evolution of the line of this run, as far as its budget reaches.
Evo == Evolution(from_string(s), Budget(max_depth))

\* b is a shifted by some non-zero offset.
Translate(a, b) ==
  \/ a = {} /\ b = {}
  \/ \E x \in a, y \in b : y /= x /\ b = {z + (y - x) : z \in a}

\* The same for non-empty sets only.
TranslateNonEmpty(a, b) == a /= {} /\ Translate(a, b)

\* Entry j of the evolution (1-based, j >= 2) equals an earlier entry.
Repeats(e, j) == \E i \in 1..(j - 1) : e[j].values = e[i].values

\* Entry j of the evolution is a non-zero translate, with equally many
\* cells, of an earlier entry.
Translates(e, j) ==
  \E i \in 1..(j - 1) :
     /\ Cardinality(e[j].values) = Cardinality(e[i].values)
     /\ Translate(e[i].values, e[j].values)

NoHash == \A i \in 1..Len(s) : s[i] /= "#"

\* Number of filled cells among p-2, p-1, p+1, p+2.
Neighbours(v, p) == Cardinality({p - 2, p - 1, p + 1, p + 2} \cap v)

\* The transition rule on a bare set of filled positions.
Rule(v, p) ==
  \/ p \in v /\ Neighbours(v, p) \in {2, 4}
  \/ p \notin v /\ Neighbours(v, p) \in {2, 3}

SetMin(v) == CHOOSE x \in v : \A y \in v : x <= y
SetMax(v) == CHOOSE x \in v : \A y \in v : x >= y

-----------------------------------------------------------------------------
(* Properties *)

\* C1. Totality: every run, for every line and every max_depth, ends having
\* returned one of the four Patterns. The entry call starts the recursion
\* with a non-empty history; every recursive call either returns a Pattern
\* or recurses exactly one level deeper, never deeper than the budget (2
\* when max_depth is below 2), so the recursion is bounded; no call panics
\* on the history slice.
C1_Totality ==
  [][/\ pc = "start" => (pc' = "rec" /\ Len(previous_rows') >= 1)
     /\ pc = "rec" =>
          \/ pc' = "done" /\ result' \in Pattern
          \/ /\ pc' = "rec"
             /\ current_depth' = current_depth + 1
             /\ current_depth' <= Budget(max_depth) + 1
             /\ Len(previous_rows') >= 1]_vars

\* A run that used its whole budget of recursive calls and returned.
C1_Witness ==
  /\ pc = "done"
  /\ result \in Pattern
  /\ max_depth >= 4
  /\ current_depth = max_depth
  /\ Len(previous_rows) = max_depth - 1

\* C2 as stated (here for max_depth >= 2 only): whenever some configuration
\* of the evolution within the budget equals an earlier one, the run
\* returns Blinking.
C2_AnyRepeatIsBlinking ==
  (pc = "done" /\ max_depth >= 2 /\ \E j \in 2..Len(Evo) : Repeats(Evo, j))
    => result = "Blinking"

\* C2 amended: whenever some NON-EMPTY configuration of the evolution within
\* the budget equals an earlier one, the run returns Blinking (so not
\* Gliding). An empty configuration repeating itself is Vanishing. In the
\* call that returns, a non-empty new configuration equal to a history
\* entry gives Blinking whatever the translation test would say.
C2_NonEmptyRepeatIsBlinking ==
  /\ (pc = "done" /\ \E j \in 2..Len(Evo) :
                        Evo[j].values /= {} /\ Repeats(Evo, j))
       => result = "Blinking"
  /\ (pc = "done" /\ next(self).values /= {}
                  /\ \E i \in 1..Len(previous_rows) :
                        next(self).values = previous_rows[i].values)
       => result = "Blinking"

\* A run returned Blinking on a non-empty configuration equal to an earlier
\* one, after at least one recursion.
C2_Witness ==
  /\ pc = "done"
  /\ result = "Blinking"
  /\ current_depth >= 3
  /\ \E j \in 2..Len(Evo) : Evo[j].values /= {} /\ Repeats(Evo, j)

\* C3 as stated (here for max_depth >= 2 only): whenever some configuration
\* of the evolution within the budget has as many cells as an earlier one
\* and is that one shifted by a non-zero offset, the run returns Gliding.
C3_AnyTranslateIsGliding ==
  (pc = "done" /\ max_depth >= 2 /\ \E j \in 2..Len(Evo) : Translates(Evo, j))
    => result = "Gliding"

\* C3 amended: the same for a NON-EMPTY configuration; the empty
\* configuration is its own translate by every offset and is Vanishing.
C3_NonEmptyTranslateIsGliding ==
  (pc = "done" /\ \E j \in 2..Len(Evo) :
                     Evo[j].values /= {} /\ Translates(Evo, j))
    => result = "Gliding"

\* A run returned Gliding after at least one recursion, on a configuration
\* that is a translate of an earlier one.
C3_Witness ==
  /\ pc = "done"
  /\ result = "Gliding"
  /\ current_depth >= 3
  /\ \E j \in 2..Len(Evo) : Evo[j].values /= {} /\ Translates(Evo, j)

\* C4. Vanishing: in every call of detect_pattern_recursive, the first and
\* the one at the budget boundary included, an empty transition of the
\* current configuration makes the call return Vanishing.
C4_EmptyNextIsVanishing ==
  [][(pc = "rec" /\ next(self).values = {})
       => (pc' = "done" /\ result' = "Vanishing")]_vars

\* Vanishing returned in the call at the budget boundary, after recursion.
C4_Witness ==
  /\ pc = "done"
  /\ result = "Vanishing"
  /\ max_depth >= 3
  /\ current_depth = max_depth
  /\ next(self).values = {}

\* C5. Empty configuration: for a line without '#' the Row is the empty Row
\* with min = max = 0, its transition is again the empty Row, and the run
\* returns Vanishing in its first call, without a panic.
C5_EmptyLineVanishes ==
  NoHash =>
    /\ pc /= "panicked"
    /\ from_string(s) = new
    /\ next(from_string(s)) = new
    /\ pc = "rec" => (self = new /\ current_depth = 2)
    /\ pc = "done" => (result = "Vanishing" /\ current_depth = 2)

\* A non-blank line of other characters only, classified.
C5_Witness ==
  /\ NoHash
  /\ Len(s) >= 2
  /\ pc = "done"
  /\ result = "Vanishing"

\* C6. Other: for max_depth >= 2 the run returns Other exactly when no
\* configuration of the evolution within the budget is empty, equals an
\* earlier one or is a non-zero translate of an earlier one.
C6_OtherIffNothingFound ==
  (pc = "done" /\ max_depth >= 2) =>
    (result = "Other" <=>
       \A j \in 2..Len(Evo) :
          /\ Evo[j].values /= {}
          /\ ~Repeats(Evo, j)
          /\ ~Translates(Evo, j))

\* Other returned after the budget was used up by recursion.
C6_Witness ==
  /\ pc = "done"
  /\ result = "Other"
  /\ max_depth >= 4
  /\ current_depth = max_depth

\* The output main is to print: line i's own Pattern, in input order.
ExpectedOutput ==
  [i \in 1..Len(content) |-> fmt(detect_pattern(content[i], MAX_DEPTH))]

\* C7. Order preservation: whatever the interleaving of the threads, what
\* main has printed is always the beginning of the expected output, and
\* when main returns there is exactly one output line per input line, line
\* i being the Pattern of input line i.
C7_OutputInInputOrder ==
  /\ Len(output) <= Len(content)
  /\ \A i \in 1..Len(output) : output[i] = ExpectedOutput[i]
  /\ mainpc = "done" => output = ExpectedOutput

\* main returned after printing two different Patterns for two lines.
C7_Witness ==
  /\ mainpc = "done"
  /\ Len(content) = 2
  /\ Len(output) = 2
  /\ output[1] /= output[2]

\* What the tests on the new configuration give when the budget test comes
\* last, stated on the filled sets.
BoundaryResult(row, history) ==
  LET n == next(row).values IN
  IF n = {} THEN "Vanishing"
  ELSE IF \E i \in 1..Len(history) : n = history[i].values THEN "Blinking"
  ELSE IF \E i \in 1..Len(history) :
            /\ Cardinality(n) = Cardinality(history[i].values)
            /\ TranslateNonEmpty(history[i].values, n)
  THEN "Gliding"
  ELSE "Other"

\* C8. Budget boundary: the call in which current_depth has reached
\* max_depth returns, and returns Vanishing, Blinking or Gliding when the
\* new configuration is empty, a repeat or a translate; Other only if it is
\* none of these.
C8_BoundaryTestsBeforeBudget ==
  [][(pc = "rec" /\ current_depth >= max_depth)
       => (pc' = "done" /\ result' = BoundaryResult(self, previous_rows))]_vars

\* A cycle found exactly in the boundary call, after recursion.
C8_Witness ==
  /\ pc = "done"
  /\ max_depth >= 3
  /\ current_depth = max_depth
  /\ result = "Blinking"

\* One call with the exact-repeat test run against the full history.
step_full(row, md, depth, history) ==
  LET nx == next(row) IN
  IF nx.values = {} THEN "Vanishing"
  ELSE IF \E i \in 1..Len(history) : eq(nx, history[i]) THEN "Blinking"
  ELSE IF \E i \in 1..Len(history) : is_gliding(nx, history[i]) THEN "Gliding"
  ELSE IF depth >= md THEN "Other"
  ELSE "recurse"

RECURSIVE detect_full(_, _, _, _)
detect_full(row, md, depth, history) ==
  LET o == step_full(row, md, depth, history) IN
  IF o = "recurse"
  THEN detect_full(next(row), md, depth + 1, Append(history, next(row)))
  ELSE o

\* C9. In every call a non-empty new configuration differs from the last
\* history entry, and the run returns what it would return with the
\* exact-repeat test run against the full history.
C9_LastRowNeverEqualsNext ==
  /\ (pc = "rec" /\ next(self).values /= {})
        => ~eq(next(self), previous_rows[Len(previous_rows)])
  /\ pc = "done"
        => result = detect_full(from_string(s), max_depth, 2, initial_rows(s))

\* A run that returned Blinking after recursion: the exact-repeat test
\* decided it, and the last history entry was not the match.
C9_Witness ==
  /\ pc = "done"
  /\ result = "Blinking"
  /\ Len(previous_rows) >= 3
  /\ ~eq(next(self), previous_rows[Len(previous_rows)])

\* C10. Transition rule: for a non-empty configuration, Row::next holds
\* exactly the positions satisfying the rule, among all positions up to
\* Margin beyond the filled span on either side, and its min and max are
\* the smallest and largest of them.
C10_NextIsTheRule ==
  self.values /= {} =>
    LET v == self.values
        n == next(self)
    IN /\ n.values = {p \in (SetMin(v) - Margin)..(SetMax(v) + Margin) : Rule(v, p)}
       /\ n.values /= {} => (n.min = SetMin(n.values) /\ n.max = SetMax(n.values))

\* A configuration whose transition fills both positions just outside the
\* filled span.
C10_Witness ==
  /\ pc = "rec"
  /\ self.values /= {}
  /\ (self.min - 1) \in next(self).values
  /\ (self.max + 1) \in next(self).values

\* The filled set v shifted by k.
Shifted(v, k) == {x + k : x \in v}

\* C11. Gliding test exactness: for two non-empty Rows built by from_string
\* and next, is_gliding is true exactly when the other Row's filled set is
\* the receiver's shifted by the difference of their smallest cells and
\* that difference is not zero; that is, exactly when it is a non-zero
\* translate of the receiver's.
C11_IsGlidingIsExactTranslate ==
  (call.op = "is_gliding" /\ rowA.values /= {} /\ rowB.values /= {}) =>
    LET k == SetMin(rowB.values) - SetMin(rowA.values) IN
    /\ call.ret <=> (k /= 0 /\ rowB.values = Shifted(rowA.values, k))
    /\ call.ret <=> TranslateNonEmpty(rowA.values, rowB.values)

\* is_gliding answered false on two Rows, one of them built by next, where
\* the one-directional eq_shift alone would say true: the other Row holds
\* the shifted receiver and more.
C11_Witness ==
  /\ call.op = "is_gliding"
  /\ ~call.ret
  /\ gens[2] = 1
  /\ rowA.values /= {}
  /\ rowA.min /= rowB.min
  /\ eq_shift(rowA, rowB, rowB.min - rowA.min)

\* What eq_shift is to answer for the call recorded.
C12_Subset ==
  call.op = "eq_shift" =>
    (call.ret <=> (Shifted(rowA.values, call.arg) \subseteq rowB.values))

\* C12 as stated: eq_shift is the one-directional subset test, and for any
\* two Rows with the same number of cells it is true for at most one
\* offset.
C12_SubsetAndAtMostOneOffset ==
  /\ C12_Subset
  /\ (call.op = "eq_shift" /\ call.ret
        /\ Cardinality(rowA.values) = Cardinality(rowB.values)) =>
       \A k \in Offsets : eq_shift(rowA, rowB, k) => k = call.arg

\* C12 amended: eq_shift is the one-directional subset test, and for any
\* two NON-EMPTY Rows with the same number of cells it is true for at most
\* one offset (for an empty receiver it is true for every offset).
C12_SubsetAndAtMostOneOffsetNonEmpty ==
  /\ C12_Subset
  /\ (call.op = "eq_shift" /\ call.ret /\ rowA.values /= {}
        /\ Cardinality(rowA.values) = Cardinality(rowB.values)) =>
       \A k \in Offsets : eq_shift(rowA, rowB, k) => k = call.arg

\* eq_shift answered true for a non-zero offset on a receiver of at least
\* two cells and another Row that holds more cells than the receiver.
C12_Witness ==
  /\ call.op = "eq_shift"
  /\ call.ret
  /\ call.arg /= 0
  /\ Cardinality(rowA.values) >= 2
  /\ Cardinality(rowB.values) > Cardinality(rowA.values)

\* The smaller and the larger of two integers.
Smaller(x, y) == IF x < y THEN x ELSE y
Larger(x, y) == IF x > y THEN x ELSE y

\* C13. Row min/max invariant: every insert call on a Row built from
\* Row::new by insert calls, in any order and with repeats, adds the value
\* to the set and leaves min the smallest and max the largest element of
\* the set; min and max are what independent min() and max() updates give.
C13_InsertKeepsMinMax ==
  [][call'.op = "insert" =>
       LET v == call'.arg IN
       /\ rowA'.values = rowA.values \cup {v}
       /\ rowA'.min = SetMin(rowA'.values)
       /\ rowA'.max = SetMax(rowA'.values)
       /\ rowA'.min = (IF rowA.values = {} THEN v ELSE Smaller(rowA.min, v))
       /\ rowA'.max = (IF rowA.values = {} THEN v ELSE Larger(rowA.max, v))]_vars

\* Four inserts, one of them a repeat, the last one strictly inside the
\* span: the values did not come in ascending order.
C13_Witness ==
  /\ call.op = "insert"
  /\ gens[1] = 4
  /\ Cardinality(rowA.values) = 3
  /\ rowA.min < call.arg
  /\ call.arg < rowA.max
  /\ rowA.min < 0

\* The history is the evolution of the line so far, and the receiver is its
\* last entry.
HistoryOfDepth(history, receiver, depth) ==
  /\ Len(history) >= 1
  /\ Len(history) = depth - 1
  /\ history = Evolution(from_string(s), depth - 2)
  /\ eq(history[Len(history)], receiver)

\* C14. History invariant: in every call of detect_pattern_recursive, with
\* current_depth = d, the history is non-empty, holds d - 1 entries, entry
\* i (from 0) is the initial configuration after i transitions, and the
\* last entry has the receiver's filled set; a call that recurses appends
\* exactly one entry and a call that returns leaves the history alone.
C14_HistoryIsTheEvolution ==
  [][/\ pc' = "rec" => HistoryOfDepth(previous_rows', self', current_depth')
     /\ (pc = "rec" /\ pc' = "rec") =>
          /\ Len(previous_rows') = Len(previous_rows) + 1
          /\ SubSeq(previous_rows', 1, Len(previous_rows)) = previous_rows
     /\ (pc = "rec" /\ pc' /= "rec") => previous_rows' = previous_rows]_vars

\* A call at depth five or more: the history holds four or more entries.
C14_Witness ==
  /\ pc = "rec"
  /\ current_depth >= 5
  /\ Len(previous_rows) = current_depth - 1
  /\ previous_rows[1] = from_string(s)

\* C15. Step budget: for max_depth >= 2 the depth counter starts at 2 and
\* never passes max_depth, so the recursive function is called at most
\* max_depth - 1 times (the call at depth d is call number d - 1), a run
\* returns Other only in the call at depth max_depth, and the last
\* successor examined is at most number max_depth - 1 of the evolution.
C15_AtMostMaxDepthMinusOneCalls ==
  (max_depth >= 2 /\ pc \in {"rec", "done"}) =>
    /\ current_depth >= 2
    /\ current_depth - 1 <= max_depth - 1
    /\ (pc = "done" /\ result = "Other") => current_depth = max_depth
    /\ (pc = "done" /\ result /= "Other") =>
         next(self) = Evolution(from_string(s), current_depth - 1)[current_depth]

\* A run that made all its max_depth - 1 calls and found a pattern in the
\* last one.
C15_Witness ==
  /\ pc = "done"
  /\ max_depth >= 4
  /\ current_depth = max_depth
  /\ result = "Gliding"

\* C16. Determinism: two runs on the same line and max_depth, interleaved
\* in any way and each iterating its hash sets in any order, never panic
\* and return the same Pattern, the one detect_pattern gives as a function
\* of (line, max_depth).
C16_SameInputSamePattern ==
  /\ \A t \in 1..Len(children) :
        /\ children[t].pc /= "panicked"
        /\ children[t].pc = "done" =>
             children[t].result = detect_pattern(children[t].s, max_depth)
  /\ \A t, u \in 1..Len(children) :
        (children[t].pc = "done" /\ children[u].pc = "done"
           /\ children[t].s = children[u].s)
          => children[t].result = children[u].result

\* Both runs returned Blinking after three recursions or more, on a
\* configuration of three or more cells (six or more iteration orders),
\* the translation test having been run and failed in the calls before.
C16_Witness ==
  /\ Len(children) = 2
  /\ \A t \in 1..2 :
        /\ children[t].pc = "done"
        /\ children[t].result = "Blinking"
        /\ children[t].current_depth >= 5
        /\ Cardinality(next(children[t].self).values) >= 3

\* The Row with position p filled, and with position p empty.
WithCell(row, p) == [row EXCEPT !.values = @ \cup {p}]
WithoutCell(row, p) == [row EXCEPT !.values = @ \ {p}]

\* C17. Neighbor sum: for every Row and every position, inside or outside
\* the filled span, calc_neighbor_sum is the number of filled positions
\* among p-2, p-1, p+1, p+2, lies in 0..4, and is the same whether or not
\* p itself is filled.
C17_NeighborSumCountsFourCells ==
  call.op = "calc_neighbor_sum" =>
    LET p == call.arg IN
    /\ call.ret = Neighbours(rowA.values, p)
    /\ call.ret \in 0..4
    /\ calc_neighbor_sum(WithCell(rowA, p), p) = call.ret
    /\ calc_neighbor_sum(WithoutCell(rowA, p), p) = call.ret

\* The sum of a filled cell with all four neighbours filled, in a Row built
\* by next.
C17_Witness ==
  /\ call.op = "calc_neighbor_sum"
  /\ call.ret = 4
  /\ call.arg \in rowA.values
  /\ gens[1] = 1

\* Most characters other than '#' put before or after a line.
PadBound == 2

\* n characters other than '#'.
Dots(n) == [i \in 1..n |-> "."]

\* C18. Translation invariance: the Pattern of a line is also the Pattern
\* of the line with characters other than '#' put before it, and of the
\* line with such characters put after it, for the same max_depth.
C18_PaddingKeepsPattern ==
  pc = "done" =>
    \A n \in 1..PadBound :
       /\ detect_pattern(Dots(n) \o s, max_depth) = result
       /\ detect_pattern(s \o Dots(n), max_depth) = result

\* A line starting and ending with '#', classified Gliding after recursion:
\* its cells move, and padding moves them further.
C18_Witness ==
  /\ pc = "done"
  /\ result = "Gliding"
  /\ current_depth >= 4
  /\ Len(s) >= 2
  /\ s[1] = "#"
  /\ s[Len(s)] = "#"

\* C19. Budget monotonicity: when a run with budget d >= 2 returns a
\* Pattern other than Other, a run on the same line with any larger budget
\* returns that Pattern.
C19_LargerBudgetSamePattern ==
  (pc = "done" /\ max_depth >= 2 /\ result /= "Other") =>
    \A d \in max_depth..(MaxDepthBound + 1) : detect_pattern(s, d) = result

\* A pattern found in the very last call the budget allows, with larger
\* budgets to compare with.
C19_Witness ==
  /\ pc = "done"
  /\ result = "Vanishing"
  /\ max_depth >= 3
  /\ max_depth < MaxDepthBound
  /\ current_depth = max_depth

\* C20. Distinct history: in every state of a run that has not returned,
\* the history entries are non-empty when the line holds a '#', pairwise
\* different as filled sets, and none but the first is a non-zero
\* translate of an earlier entry.
C20_HistoryEntriesDistinct ==
  pc \in {"start", "rec"} =>
    /\ ~NoHash => \A i \in 1..Len(previous_rows) : previous_rows[i].values /= {}
    /\ \A i, j \in 1..Len(previous_rows) :
          i < j =>
            /\ previous_rows[i].values /= previous_rows[j].values
            /\ ~Translate(previous_rows[i].values, previous_rows[j].values)

\* A history of five or more entries, all of them with the same number of
\* cells, in a run still going on.
C20_Witness ==
  /\ pc = "rec"
  /\ Len(previous_rows) >= 5
  /\ \A i \in 1..Len(previous_rows) :
        Cardinality(previous_rows[i].values) = Cardinality(previous_rows[1].values)

====
